---- MODULE Spec2Model ----
(***************************************************************************)
(* Model of telegram-bot-feedback: the update dispatcher                   *)
(* (internal/pkg/bot/parsers.go), the responders and senders, the store    *)
(* operations of internal/pkg/database and the console's employee          *)
(* commands.                                                               *)
(*                                                                         *)
(* The store is four tables kept as sequences; a row's primary key is its  *)
(* index.  db.Save of a loaded row is modelled as writing that row.  Store *)
(* calls succeed.  Every handler takes the set of its Send calls that the  *)
(* gateway rejects.  One step of the model is one parseUpdate call of the  *)
(* fetcher's loop.  An update whose parseUpdate returned an error is not   *)
(* passed by the offset and is the next update the fetcher hands to        *)
(* parseUpdate.  A specification fixes its environment: whether the        *)
(* gateway may reject a Send, how many updates a fetch may return and how  *)
(* many correspondence entries the run may store.  The console runs in a   *)
(* goroutine of its own: a specification with the console splits a console *)
(* command and a dispatcher call into the load of the participant's row    *)
(* and the Save of the row that was loaded.                                *)
(***************************************************************************)
EXTENDS Integers, Sequences, FiniteSets

\* ---------------------------------------------------------------- bounds
MaxUsers == 3
MaxQuestions == 2
MaxCorr == 1
MaxReviews == 1
MaxReplay == 2
MaxBatch == 2
MaxLossyQuestions == 1

\* ------------------------------------------------------- program constants
SNew == 1
SMain == 2
SReview == 3
SReviewText == 4
SQuestion == 5
SQuestionDiscussion == 6
SSwitchReceiver == 7
SSearchQuestion == 8

CBQuestion == 1

RDay == 1
RWeek == 2
RMonth == 3
RAll == 4

\* ------------------------------------------------------------------ inputs
\* Telegram chats that talk to the bot.
Chats == {1, 2, 3}

\* message.From.UserName of each chat; 0 stands for the empty string (no
\* username).
Nickname(c) == c

\* What a customer types as a question.  In state Question every text but
\* "Close" takes the same branch and is stored as the header.
QuestionTexts == {"hello"}

\* Message texts.  The emoji of the button captions are left out:
\* "Review" is the customer's review button, "Reviews" the employee's.
Texts ==
    {"/start", "Question", "Close", "Back", "Receive questions", "hello"}

\* The sends of one parseUpdate call are numbered 1, 2, ...; a fail set
\* names the ones the gateway rejects.  A handler that makes n sends when
\* none fails makes at most n when some fail, so the fail sets of a call
\* are the subsets of 1..n.  A reliable gateway rejects none.
FailSets(n, lossy) == IF lossy THEN SUBSET (1..n) ELSE {{}}

NoEvent == [kind |-> "none", chat |-> 0, text |-> "", data |-> <<>>, msg |-> 0]

VARIABLES
    users,      \* table users: [chat, nick, state, emp, recv]
    questions,  \* table questions: [user, answerer, header, haveAnswer, closed]
    corr,       \* table question_correspondences: [question, msg, user, emp]
    reviews,    \* table reviews: [user, rating, text]
    last,       \* the update (or console command) handled by the last step
    sent,       \* the messages the gateway delivered during the last step
    failed,     \* some Send of the last step failed
    pending,    \* the update parseUpdate returned an error for, or NoEvent
    batch,      \* the fetcher's current batch: [size, done, passed]
    held        \* the rows loaded and not yet saved, by dispatcher and console

vars == <<users, questions, corr, reviews, last, sent, failed, pending, batch, held>>

\* The zero value of User.
NoRow == [chat |-> 0, nick |-> 0, state |-> 0, emp |-> FALSE, recv |-> FALSE]

\* Nobody holds a row: the dispatcher is between two calls (e), the console
\* between two commands (cmd).
Idle == [e |-> NoEvent, user |-> 0, row |-> NoRow,
         cmd |-> "none", id |-> 0, found |-> 0, crow |-> NoRow]

\* ----------------------------------------------------------------- helpers
Min(S) == CHOOSE x \in S : \A y \in S : x <= y

\* gorm First: the matching row with the lowest primary key, 0 for none.
First(S) == IF S = {} THEN 0 ELSE Min(S)

RECURSIVE SortedSeq(_)
SortedSeq(S) == IF S = {} THEN <<>> ELSE <<Min(S)>> \o SortedSeq(S \ {Min(S)})

Digits == {"0", "1", "2", "3", "4", "5", "6", "7", "8", "9"}

DigitVal(ch) ==
    CASE ch = "0" -> 0 [] ch = "1" -> 1 [] ch = "2" -> 2 [] ch = "3" -> 3
      [] ch = "4" -> 4 [] ch = "5" -> 5 [] ch = "6" -> 6 [] ch = "7" -> 7
      [] ch = "8" -> 8 [] ch = "9" -> 9

\* strconv.Atoi on a sequence of characters: [ok, val].
RECURSIVE AtoiChars(_)
AtoiChars(s) ==
    IF s = <<>> THEN [ok |-> FALSE, val |-> 0]
    ELSE IF \E i \in 1..Len(s) : s[i] \notin Digits THEN [ok |-> FALSE, val |-> 0]
    ELSE IF Len(s) = 1 THEN [ok |-> TRUE, val |-> DigitVal(s[1])]
    ELSE [ok |-> TRUE,
          val |-> 10 * AtoiChars(SubSeq(s, 1, Len(s) - 1)).val + DigitVal(s[Len(s)])]

\* strconv.Atoi on a message text.
Atoi(t) ==
    IF t \in Digits THEN [ok |-> TRUE, val |-> DigitVal(t)] ELSE [ok |-> FALSE, val |-> 0]

\* strings.Split(s, "-")
RECURSIVE Split(_)
Split(s) ==
    IF \A i \in 1..Len(s) : s[i] # "-" THEN <<s>>
    ELSE LET k == Min({i \in 1..Len(s) : s[i] = "-"})
         IN <<SubSeq(s, 1, k - 1)>> \o Split(SubSeq(s, k + 1, Len(s)))

DigitChar(d) ==
    CASE d = 0 -> "0" [] d = 1 -> "1" [] d = 2 -> "2" [] d = 3 -> "3" [] d = 4 -> "4"
      [] d = 5 -> "5" [] d = 6 -> "6" [] d = 7 -> "7" [] d = 8 -> "8" [] d = 9 -> "9"

\* strconv.Itoa of a natural number, as a sequence of characters.
RECURSIVE Itoa(_)
Itoa(n) == IF n < 10 THEN <<DigitChar(n)>> ELSE Itoa(n \div 10) \o <<DigitChar(n % 10)>>

splitCallbackData(data) ==
    LET parts == Split(data)
        key == AtoiChars(parts[1])
    IN IF ~key.ok THEN [key |-> 0, data |-> <<>>]
       ELSE IF Len(parts) > 1 THEN [key |-> key.val, data |-> parts[2]]
       ELSE [key |-> key.val, data |-> <<>>]

\* The payload sendQuestions puts on the button of question id.
OfferData(id) == Itoa(CBQuestion) \o <<"-">> \o Itoa(id)

\* Callback payloads, as sequences of characters: the buttons of the offers
\* and one payload no button carries.
CallbackDatas == {OfferData(id) : id \in 1..MaxQuestions} \cup {<<"x">>}

\* ------------------------------------------------------------------- store
\* The working state of one parseUpdate call: the four tables, the messages
\* delivered so far (out), the number of Send calls made so far (n), whether
\* a Send failed (failed) and the error of the last call (err).
Begin ==
    [users |-> users, questions |-> questions, corr |-> corr, reviews |-> reviews,
     out |-> <<>>, n |-> 0, failed |-> FALSE, err |-> FALSE]

\* A return of an error where the code returns nil.
NoErrRaised(st) == [st EXCEPT !.err = TRUE]

NoErr(st) == [st EXCEPT !.err = FALSE]

GetUserByChatID(chatId, st) ==
    First({i \in DOMAIN st.users : st.users[i].chat = chatId})

AddEmployeeByID(tbl, id) ==
    LET u == First({i \in DOMAIN tbl : tbl[i].chat = id})
    IN IF u = 0
       THEN Append(tbl, [chat |-> id, nick |-> 0, state |-> 0, emp |-> TRUE, recv |-> FALSE])
       ELSE [tbl EXCEPT ![u].emp = TRUE]

RemoveEmployeeByID(tbl, id) ==
    LET u == First({i \in DOMAIN tbl : tbl[i].chat = id})
    IN IF u = 0
       THEN Append(tbl, [chat |-> id, nick |-> 0, state |-> 0, emp |-> FALSE, recv |-> FALSE])
       ELSE [tbl EXCEPT ![u].emp = FALSE]

\* The row AddUser finds: by chat id or by nickname.
AddUserRow(chatId, nick, st) ==
    First({i \in DOMAIN st.users : st.users[i].chat = chatId \/ st.users[i].nick = nick})

\* AddUser: [st, user], user the primary key of the saved row.
AddUser(chatId, nick, state, st) ==
    LET u == AddUserRow(chatId, nick, st)
    IN IF u = 0
       THEN [st |-> [st EXCEPT !.users = Append(@, [chat |-> chatId, nick |-> nick,
                                state |-> state, emp |-> FALSE, recv |-> FALSE])],
             user |-> Len(st.users) + 1]
       ELSE [st |-> [st EXCEPT !.users[u] = [@ EXCEPT !.nick = nick, !.chat = chatId,
                                                      !.state = state, !.recv = FALSE]],
             user |-> u]

\* AddQuestion that fills AnswererID along with UserID.
AddQuestionAnswered(header, user, st) ==
    [st EXCEPT !.questions = Append(@, [user |-> user, answerer |-> user, header |-> header,
                                        haveAnswer |-> FALSE, closed |-> FALSE])]

AddQuestion(header, user, st) ==
    [st EXCEPT !.questions = Append(@, [user |-> user, answerer |-> 0, header |-> header,
                                        haveAnswer |-> FALSE, closed |-> FALSE])]

GetOpenQuestionByUser(user, st) ==
    First({q \in DOMAIN st.questions :
             st.questions[q].user = user /\ ~st.questions[q].closed})

\* GetOpenQuestionByAnswerer without the filter on is_closed.
GetOpenQuestionByAnswererClosed(user, st) ==
    First({q \in DOMAIN st.questions : st.questions[q].answerer = user})

GetOpenQuestionByAnswerer(user, st) ==
    First({q \in DOMAIN st.questions :
             st.questions[q].answerer = user /\ ~st.questions[q].closed})

\* AddCorrespondence that looks the question up by answerer for everybody.
AddCorrespondenceByAnswerer(user, messageId, st) ==
    LET question == GetOpenQuestionByAnswerer(user, st)
    IN IF question = 0 THEN st
       ELSE [st EXCEPT !.corr = Append(@, [question |-> question, msg |-> messageId,
                                           user |-> user, emp |-> FALSE])]

AddCorrespondence(user, messageId, st) ==
    LET question == IF st.users[user].emp THEN GetOpenQuestionByAnswerer(user, st)
                    ELSE GetOpenQuestionByUser(user, st)
    IN IF question = 0 THEN st
       ELSE [st EXCEPT !.corr = Append(@, [question |-> question, msg |-> messageId,
                                           user |-> user, emp |-> FALSE])]

GetReceivers(st) ==
    SortedSeq({i \in DOMAIN st.users :
                 /\ st.users[i].emp
                 /\ st.users[i].recv
                 /\ ~\E q \in DOMAIN st.questions : st.questions[q].answerer = i})

GetEmptyReview(user, st) ==
    First({r \in DOMAIN st.reviews : st.reviews[r].user = user /\ st.reviews[r].text = ""})

GetQuestionById(id, st) == IF id \in DOMAIN st.questions THEN id ELSE 0

\* GetNewQuestionById without the filter on the answerer.
GetNewQuestionByIdAnyAnswerer(id, st) ==
    First({q \in DOMAIN st.questions :
             /\ q = id
             /\ ~st.questions[q].haveAnswer
             /\ ~st.questions[q].closed})

GetNewQuestionById(id, st) ==
    First({q \in DOMAIN st.questions :
             /\ q = id
             /\ st.questions[q].answerer = 0
             /\ ~st.questions[q].haveAnswer
             /\ ~st.questions[q].closed})

\* GetNewQuestions without the filter on have_answer.
GetNewQuestionsAnswered(st) ==
    SortedSeq({q \in DOMAIN st.questions :
                 /\ st.questions[q].answerer = 0
                 /\ ~st.questions[q].closed})

GetNewQuestions(st) ==
    SortedSeq({q \in DOMAIN st.questions :
                 /\ st.questions[q].answerer = 0
                 /\ ~st.questions[q].haveAnswer
                 /\ ~st.questions[q].closed})

\* GetCorrespondenceByQuestion ordering by id desc.
GetCorrespondenceByQuestionDesc(question, st) ==
    LET s == SortedSeq({k \in DOMAIN st.corr : st.corr[k].question = question})
    IN [i \in 1..Len(s) |-> s[Len(s) + 1 - i]]

GetCorrespondenceByQuestion(question, st) ==
    SortedSeq({k \in DOMAIN st.corr : st.corr[k].question = question})

ChangeUserState(state, user, st) == [st EXCEPT !.users[user].state = state]

\* ChangeUserIsReceiver that saves nothing.
ChangeUserIsReceiverDropped(isReceiver, user, st) == st

ChangeUserIsReceiver(isReceiver, user, st) == [st EXCEPT !.users[user].recv = isReceiver]

ChangeTextReviewByUser(text, user, st) ==
    LET review == GetEmptyReview(user, st)
    IN IF review = 0 THEN st ELSE [st EXCEPT !.reviews[review].text = text]

\* ChangeQuestionHaveAnswer that saves nothing.
ChangeQuestionHaveAnswerDropped(state, question, st) == st

\* ChangeQuestionHaveAnswer that ignores the value it is given.
ChangeQuestionHaveAnswerTrue(state, question, st) ==
    [st EXCEPT !.questions[question].haveAnswer = TRUE]

ChangeQuestionHaveAnswer(state, question, st) ==
    [st EXCEPT !.questions[question].haveAnswer = state]

\* ChangeQuestionAnswerer that saves nothing.
ChangeQuestionAnswererDropped(answererID, question, st) == st

ChangeQuestionAnswerer(answererID, question, st) ==
    [st EXCEPT !.questions[question].answerer = answererID]

\* ChangeQuestionIsClosed that saves nothing.
ChangeQuestionIsClosedDropped(closed, question, st) == st

ChangeQuestionIsClosed(closed, question, st) ==
    [st EXCEPT !.questions[question].closed = closed]

\* ----------------------------------------------------------------- gateway
\* Client.Send: the (n+1)-th send of the call fails when F names it.
Msg(to, kind, ref) == [to |-> to, kind |-> kind, ref |-> ref]

Send(m, st, F) ==
    IF (st.n + 1) \in F
    THEN [st EXCEPT !.n = @ + 1, !.failed = TRUE, !.err = TRUE]
    ELSE [st EXCEPT !.n = @ + 1, !.out = Append(@, m), !.err = FALSE]

\* -------------------------------------------------------------- responders
responserCommandUser(user, st, F) ==
    LET s1 == Send(Msg(st.users[user].chat, "greeting", 0), st, F)
    IN IF s1.err THEN s1 ELSE ChangeUserState(SMain, user, s1)

responserCommandEmployee(user, st, F) ==
    LET s1 == Send(Msg(st.users[user].chat, "greeting", 1), st, F)
    IN IF s1.err THEN s1 ELSE ChangeUserState(SMain, user, s1)

responserCommand(user, st, F) ==
    IF st.users[user].emp THEN responserCommandEmployee(user, st, F)
    ELSE responserCommandUser(user, st, F)

\* The prompt of a state; ref is the state the prompt belongs to.
responserUser(user, st, F) ==
    LET u == st.users[user]
    IN IF u.state \in {SMain, SReview, SReviewText, SQuestion}
       THEN Send(Msg(u.chat, "prompt", u.state), st, F)
       ELSE IF u.state = SQuestionDiscussion
       THEN IF GetOpenQuestionByUser(user, st) = 0
            THEN Send(Msg(u.chat, "reopen", 0), st, F)
            ELSE Send(Msg(u.chat, "yourquestion", GetOpenQuestionByUser(user, st)), st, F)
       ELSE NoErr(st)

responserEmployee(user, st, F) ==
    LET u == st.users[user]
    IN CASE u.state \in {SMain, SReview, SQuestionDiscussion, SSearchQuestion} ->
              Send(Msg(u.chat, "prompt", u.state), st, F)
         [] u.state = SQuestion ->
              LET s1 == Send(Msg(u.chat, "noquestions", 0), st, F)
              IN IF s1.err THEN s1 ELSE ChangeUserState(SMain, user, s1)
         [] u.state = SSwitchReceiver ->
              LET s1 == ChangeUserState(SMain, user, st)
              IN IF u.recv
                 THEN Send(Msg(u.chat, "receiveoff", 0), ChangeUserIsReceiver(FALSE, user, s1), F)
                 ELSE Send(Msg(u.chat, "receiveon", 0), ChangeUserIsReceiver(TRUE, user, s1), F)
         [] OTHER -> NoErr(st)

responser(user, st, F) ==
    IF st.users[user].emp THEN responserEmployee(user, st, F)
    ELSE responserUser(user, st, F)

\* ----------------------------------------------------------------- senders
\* sendQuestions: one offer per question, stopping at the first failed send.
RECURSIVE sendQuestions(_, _, _, _)
sendQuestions(to, qs, st, F) ==
    IF qs = <<>> THEN NoErr(st)
    ELSE LET s1 == Send(Msg(st.users[to].chat, "offer", Head(qs)), st, F)
         IN IF s1.err THEN s1 ELSE sendQuestions(to, Tail(qs), s1, F)

sendCorrespondenceFromUser(question, messageId, st, F) ==
    Send([to |-> st.users[st.questions[question].answerer].chat, kind |-> "forward",
          ref |-> messageId], st, F)

\* sendCorrespondenceFromAnswerer with the two chats swapped.
sendCorrespondenceFromAnswererSwapped(question, messageId, st, F) ==
    Send([to |-> st.users[st.questions[question].answerer].chat, kind |-> "copy",
          ref |-> messageId], st, F)

sendCorrespondenceFromAnswerer(question, messageId, st, F) ==
    Send([to |-> st.users[st.questions[question].user].chat, kind |-> "copy",
          ref |-> messageId], st, F)

\* A forwarding loop that goes on after a rejected forward.
RECURSIVE forwardAllBestEffort(_, _, _, _)
forwardAllBestEffort(to, ks, st, F) ==
    IF ks = <<>> THEN [st EXCEPT !.err = st.failed]
    ELSE forwardAllBestEffort(to, Tail(ks),
             Send(Msg(st.users[to].chat, "forward", st.corr[Head(ks)].msg), st, F), F)

\* The forwarding loop of loadCorrespondence and loadFullQuestionById.
RECURSIVE forwardAll(_, _, _, _)
forwardAll(to, ks, st, F) ==
    IF ks = <<>> THEN NoErr(st)
    ELSE LET s1 == Send(Msg(st.users[to].chat, "forward", st.corr[Head(ks)].msg), st, F)
         IN IF s1.err THEN s1 ELSE forwardAll(to, Tail(ks), s1, F)

\* loadCorrespondence that replays first and sets the answerer afterwards.
loadCorrespondenceReplayFirst(id, user, st, F) ==
    LET question == GetNewQuestionById(id, st)
    IN IF question = 0
       THEN Send(Msg(st.users[user].chat, "taken", 0), st, F)
       ELSE LET s1 == forwardAll(user, GetCorrespondenceByQuestion(question, st), st, F)
            IN IF s1.err THEN s1 ELSE ChangeQuestionAnswerer(user, question, s1)

loadCorrespondence(id, user, st, F) ==
    LET question == GetNewQuestionById(id, st)
    IN IF question = 0
       THEN Send(Msg(st.users[user].chat, "taken", 0), st, F)
       ELSE LET s1 == ChangeQuestionAnswerer(user, question, st)
            IN forwardAll(user, GetCorrespondenceByQuestion(question, s1), s1, F)

\* loadReviews: errors of Send are dropped.  The model has no clock: every
\* review counts as created within the asked interval.
RECURSIVE sendReviews(_, _, _, _)
sendReviews(to, rs, st, F) ==
    IF rs = <<>> THEN NoErr(st)
    ELSE sendReviews(to, Tail(rs),
                     Send(Msg(st.users[to].chat, "review", Head(rs)), st, F), F)

loadReviews(interval, user, st, F) ==
    IF interval = RAll
    THEN NoErr(Send(Msg(st.users[user].chat, "counts", 0), st, F))
    ELSE sendReviews(user, SortedSeq(DOMAIN st.reviews), st, F)

\* loadFullQuestionById that puts the employee back in Main afterwards.
loadFullQuestionByIdLeaving(id, user, st, F) ==
    LET idInt == Atoi(id)
        question == GetQuestionById(idInt.val, st)
        s0 == ChangeUserState(SMain, user, st)
    IN IF ~idInt.ok
       THEN NoErr(Send(Msg(st.users[user].chat, "wrongformat", 0), s0, F))
       ELSE IF question = 0
       THEN NoErr(Send(Msg(st.users[user].chat, "notfound", 0), s0, F))
       ELSE LET s1 == Send(Msg(st.users[user].chat, "header", question), s0, F)
            IN NoErr(forwardAll(user, GetCorrespondenceByQuestion(question, s1), s1, F))

loadFullQuestionById(id, user, st, F) ==
    LET idInt == Atoi(id)
        question == GetQuestionById(idInt.val, st)
    IN IF ~idInt.ok
       THEN NoErr(Send(Msg(st.users[user].chat, "wrongformat", 0), st, F))
       ELSE IF question = 0
       THEN NoErr(Send(Msg(st.users[user].chat, "notfound", 0), st, F))
       ELSE LET s1 == Send(Msg(st.users[user].chat, "header", question), st, F)
            IN NoErr(forwardAll(user, GetCorrespondenceByQuestion(question, s1), s1, F))

\* ----------------------------------------------------------------- parsers
RatingTexts == {"*", "**", "***", "****", "*****", "1", "2", "3", "4", "5"}

\* parseReview that knows the stars only.
parseReviewStars(rating, user, st) ==
    LET r == CASE rating = "*" -> 1
               [] rating = "**" -> 2
               [] rating = "***" -> 3
               [] rating = "****" -> 4
               [] rating = "*****" -> 5
               [] OTHER -> 0
    IN [st EXCEPT !.reviews = Append(@, [user |-> user, rating |-> r, text |-> ""])]

parseReview(rating, user, st) ==
    LET r == CASE rating \in {"*", "1"} -> 1
               [] rating \in {"**", "2"} -> 2
               [] rating \in {"***", "3"} -> 3
               [] rating \in {"****", "4"} -> 4
               [] rating \in {"*****", "5"} -> 5
               [] OTHER -> 0
    IN [st EXCEPT !.reviews = Append(@, [user |-> user, rating |-> r, text |-> ""])]

\* ChangeUserState(to); responser; on its error ChangeUserState(back) and
\* the error is returned.
respondOrRollback(to, back, user, st, F) ==
    LET s1 == responser(user, ChangeUserState(to, user, st), F)
    IN IF s1.err THEN [ChangeUserState(back, user, s1) EXCEPT !.err = TRUE] ELSE s1

\* The loop over GetReceivers: errors of sendQuestions are dropped.
RECURSIVE sendToReceivers(_, _, _, _)
sendToReceivers(receivers, question, st, F) ==
    IF receivers = <<>> THEN NoErr(st)
    ELSE sendToReceivers(Tail(receivers), question,
                         sendQuestions(Head(receivers), <<question>>, st, F), F)

parseMessageUser(user, text, messageId, st, F) ==
    LET state == st.users[user].state
    IN CASE state = SNew -> ChangeUserState(SMain, user, st)
         [] state = SMain ->
              IF text = "Review" THEN respondOrRollback(SReview, SMain, user, st, F)
              ELSE IF text = "Question" THEN respondOrRollback(SQuestion, SMain, user, st, F)
              ELSE NoErr(st)
         [] state = SReview ->
              IF text \in RatingTexts
              THEN respondOrRollback(SReviewText, SReview, user, parseReview(text, user, st), F)
              ELSE NoErr(st)
         [] state = SReviewText ->
              IF text = "Close"
              THEN respondOrRollback(SMain, SReviewText, user,
                                     ChangeTextReviewByUser("-", user, st), F)
              ELSE respondOrRollback(SMain, SReviewText, user,
                                     ChangeTextReviewByUser(text, user, st), F)
         [] state = SQuestion ->
              IF text = "Close" THEN respondOrRollback(SMain, SQuestion, user, st, F)
              ELSE LET s1 == AddQuestion(text, user, st)
                       s2 == sendToReceivers(GetReceivers(s1), Len(s1.questions), s1, F)
                   IN respondOrRollback(SQuestionDiscussion, SQuestion, user, s2, F)
         [] state = SQuestionDiscussion ->
              IF text = "Close"
              THEN LET s1 == ChangeUserState(SMain, user, st)
                       question == GetOpenQuestionByUser(user, s1)
                       s2 == IF question = 0 THEN s1
                             ELSE ChangeQuestionIsClosed(TRUE, question,
                                      AddCorrespondence(user, messageId, s1))
                       s3 == IF question # 0 /\ st.questions[question].answerer # 0
                             THEN sendCorrespondenceFromUser(question, messageId, s2, F)
                             ELSE NoErr(s2)
                       s4 == responser(user, s3, F)
                   IN IF s3.err THEN s3
                      ELSE IF s4.err
                      THEN [ChangeUserState(SQuestionDiscussion, user, s4) EXCEPT !.err = TRUE]
                      ELSE s4
              ELSE LET question == GetOpenQuestionByUser(user, st)
                       s1 == IF question # 0 /\ st.questions[question].answerer # 0
                             THEN sendCorrespondenceFromUser(question, messageId, st, F)
                             ELSE NoErr(st)
                   IN IF question = 0 THEN NoErr(st)
                      ELSE IF s1.err THEN s1
                      ELSE AddCorrespondence(user, messageId,
                               ChangeQuestionHaveAnswer(FALSE, question, s1))
         [] OTHER -> NoErr(st)

parseMessageEmployee(user, text, messageId, st, F) ==
    LET state == st.users[user].state
    IN CASE state = SNew -> ChangeUserState(SMain, user, st)
         [] state = SMain ->
              CASE text \in {"Receive questions", "Do not receive questions"} ->
                     responser(user, ChangeUserState(SSwitchReceiver, user, st), F)
                [] text = "Open questions" ->
                     IF GetNewQuestions(st) = <<>>
                     THEN responser(user, ChangeUserState(SQuestion, user, st), F)
                     ELSE NoErr(sendQuestions(user, GetNewQuestions(st), st, F))
                [] text = "Reviews" -> respondOrRollback(SReview, SMain, user, st, F)
                [] text = "Find a question" ->
                     respondOrRollback(SSearchQuestion, SMain, user, st, F)
                [] OTHER -> NoErr(st)
         [] state = SReview ->
              CASE text = "For a day" -> loadReviews(RDay, user, st, F)
                [] text = "For a week" -> loadReviews(RWeek, user, st, F)
                [] text = "For a month" -> loadReviews(RMonth, user, st, F)
                [] text = "All (no text)" -> loadReviews(RAll, user, st, F)
                [] text = "Back" ->
                     respondOrRollback(SMain, SQuestionDiscussion, user, st, F)
                [] OTHER -> NoErr(st)
         [] state = SQuestionDiscussion ->
              IF text = "Back"
              THEN LET s1 == ChangeUserState(SMain, user, st)
                       question == GetOpenQuestionByAnswerer(user, s1)
                       s2 == IF question = 0 THEN s1
                             ELSE ChangeQuestionAnswerer(0, question, s1)
                       s3 == responser(user, s2, F)
                   IN IF s3.err
                      THEN [ChangeUserState(SQuestionDiscussion, user, s3) EXCEPT !.err = TRUE]
                      ELSE s3
              ELSE LET question == GetOpenQuestionByAnswerer(user, st)
                       s1 == sendCorrespondenceFromAnswerer(question, messageId, st, F)
                   IN IF question = 0 THEN NoErr(st)
                      ELSE IF s1.err THEN s1
                      ELSE AddCorrespondence(user, messageId,
                               ChangeQuestionHaveAnswer(TRUE, question, s1))
         [] state = SSearchQuestion ->
              IF text = "Back" THEN respondOrRollback(SMain, SSearchQuestion, user, st, F)
              ELSE loadFullQuestionById(text, user, st, F)
         [] OTHER -> NoErr(st)

\* parseCommand that leaves the sender's open question open.
parseCommandKeeping(chatId, nick, st, F) ==
    LET a == AddUser(chatId, nick, SNew, st)
    IN responserCommand(a.user, a.st, F)

\* parseCommand for "/start".
parseCommand(chatId, nick, st, F) ==
    LET a == AddUser(chatId, nick, SNew, st)
        question == GetOpenQuestionByUser(a.user, a.st)
        s1 == IF question = 0 THEN a.st ELSE ChangeQuestionIsClosed(TRUE, question, a.st)
    IN responserCommand(a.user, s1, F)

parseCallbackUser(user, data, st, F) == NoErr(st)

\* parseCallbackEmployee that claims in whatever state the employee is.
parseCallbackEmployeeAnyState(user, data, st, F) ==
    LET cb == splitCallbackData(data)
        id == AtoiChars(cb.data)
        s1 == loadCorrespondence(id.val, user, st, F)
    IN IF cb.key = CBQuestion
       THEN IF ~id.ok THEN [st EXCEPT !.err = TRUE]
            ELSE IF s1.err THEN s1
            ELSE respondOrRollback(SQuestionDiscussion, SMain, user, s1, F)
       ELSE NoErr(st)

\* parseCallbackEmployee that leaves the state alone when the question was
\* not claimed.
parseCallbackEmployeeClaimedOnly(user, data, st, F) ==
    LET cb == splitCallbackData(data)
        id == AtoiChars(cb.data)
        s1 == loadCorrespondence(id.val, user, st, F)
    IN IF st.users[user].state = SMain /\ cb.key = CBQuestion
       THEN IF ~id.ok THEN [st EXCEPT !.err = TRUE]
            ELSE IF s1.err \/ GetNewQuestionById(id.val, st) = 0 THEN s1
            ELSE respondOrRollback(SQuestionDiscussion, SMain, user, s1, F)
       ELSE NoErr(st)

parseCallbackEmployee(user, data, st, F) ==
    LET cb == splitCallbackData(data)
        id == AtoiChars(cb.data)
        s1 == loadCorrespondence(id.val, user, st, F)
    IN IF st.users[user].state = SMain /\ cb.key = CBQuestion
       THEN IF ~id.ok THEN [st EXCEPT !.err = TRUE]
            ELSE IF s1.err THEN s1
            ELSE respondOrRollback(SQuestionDiscussion, SMain, user, s1, F)
       ELSE NoErr(st)

\* ------------------------------------------------------------ the fetcher
\* The updates the gateway can hand over next: a text message of T or a
\* button press with a payload of D.  A text message gets a message id no
\* stored entry carries.
Updates(T, D) ==
    {[kind |-> "msg", chat |-> c, text |-> t, data |-> <<>>, msg |-> Len(corr) + 1] :
        c \in Chats, t \in T}
    \cup
    {[kind |-> "cb", chat |-> c, text |-> "", data |-> d, msg |-> 0] :
        c \in Chats, d \in D}

\* RunFetcher: the update handed to parseUpdate is the one the offset points
\* at, which is the failed one when the last parseUpdate returned an error.
Fetched(T) == IF pending = NoEvent THEN Updates(T, CallbackDatas) ELSE {pending}

\* The call left a trace: a table changed, a message went out, a send
\* failed or an error came back.
Effect(st) ==
    \/ st.users # users
    \/ st.questions # questions
    \/ st.corr # corr
    \/ st.reviews # reviews
    \/ st.out # <<>>
    \/ st.failed
    \/ st.err

\* The environment of a run: the gateway may reject a Send (lossy), a fetch
\* returns at most maxBatch updates, the run stores at most maxCorr entries.
Reliable == [lossy |-> FALSE, maxCorr |-> MaxCorr, maxBatch |-> 1]

\* RunFetcher's loop: it goes on with the batch while updates are left
\* and no parseUpdate returned an error; otherwise updates() fetches the
\* next batch, of one update at least.  size is the number of updates
\* fetched, done the number handed to parseUpdate, passed the offset less
\* the offset the batch was fetched at.
Batches(env) ==
    IF batch.done < batch.size /\ pending = NoEvent THEN {batch}
    ELSE {[size |-> b, done |-> 0, passed |-> 0] : b \in 1..env.maxBatch}

\* parseUpdate that sets the offset whatever the handler returned.
OffsetAlways(err, cur) == cur.done + 1

\* parseUpdate's last lines: the offset is set to UpdateID + 1 when no
\* error came back.  The update is the (cur.done + 1)-th of its batch.
Offset(err, cur) == IF err THEN cur.passed ELSE cur.done + 1

\* parseUpdate's end: the tables are as the handler left them; the offset
\* moves past the update only when no error came back.  last, sent and
\* failed record the last call that left a trace.
Finish(e, st, env, cur) ==
    /\ Len(st.users) <= MaxUsers
    /\ Len(st.questions) <= MaxQuestions
    /\ Len(st.corr) <= env.maxCorr
    /\ Len(st.reviews) <= MaxReviews
    /\ users' = st.users
    /\ questions' = st.questions
    /\ corr' = st.corr
    /\ reviews' = st.reviews
    /\ pending' = IF st.err THEN e ELSE NoEvent
    /\ batch' = [size |-> cur.size, done |-> cur.done + 1, passed |-> Offset(st.err, cur)]
    /\ IF Effect(st)
       THEN last' = e /\ sent' = st.out /\ failed' = st.failed
       ELSE UNCHANGED <<last, sent, failed>>

\* The row parseMessage and parseCallback find for the sender.
Sender(e) == GetUserByChatID(e.chat, Begin)

\* The handler parseUpdate runs for update e under fail set F, on tables st.
HandleIn(e, F, st) ==
    LET user == GetUserByChatID(e.chat, st)
    IN IF e.kind = "msg"
       THEN IF e.text = "/start" THEN parseCommand(e.chat, Nickname(e.chat), st, F)
            ELSE IF user = 0 THEN [st EXCEPT !.err = TRUE]
            ELSE IF st.users[user].emp
            THEN parseMessageEmployee(user, e.text, e.msg, st, F)
            ELSE parseMessageUser(user, e.text, e.msg, st, F)
       ELSE IF user = 0 THEN [st EXCEPT !.err = TRUE]
            ELSE IF st.users[user].emp
            THEN parseCallbackEmployee(user, e.data, st, F)
            ELSE parseCallbackUser(user, e.data, st, F)

Handle(e, F) == HandleIn(e, F, Begin)

\* One parseUpdate call, from the load of the sender's row to the return.
parseUpdate(e, env) ==
    /\ held.e = NoEvent
    /\ \E F \in FailSets(Handle(e, {}).n, env.lossy) : \E cur \in Batches(env) :
         Finish(e, Handle(e, F), env, cur)
    /\ UNCHANGED held

\* parseMessage up to the handler: GetUserByChatID has loaded the sender's
\* row.  The split is modelled for the texts of a participant in Main,
\* whose handlers read and write no other row of users.
Load(e) ==
    /\ held.e = NoEvent
    /\ e.kind = "msg"
    /\ e.text # "/start"
    /\ Sender(e) # 0
    /\ users[Sender(e)].state = SMain
    /\ held' = [held EXCEPT !.e = e, !.user = Sender(e), !.row = users[Sender(e)]]
    /\ UNCHANGED <<users, questions, corr, reviews, last, sent, failed, pending, batch>>

\* The rest of the call: the handler works on the row it was handed, and
\* each ChangeUser* is a Save of that row, all columns of it; a handler
\* that changed nothing saved nothing.
Resume(env) ==
    /\ held.e # NoEvent
    /\ LET st0 == [Begin EXCEPT !.users[held.user] = held.row]
           st1 == IF held.row.emp
                  THEN parseMessageEmployee(held.user, held.e.text, held.e.msg, st0, {})
                  ELSE parseMessageUser(held.user, held.e.text, held.e.msg, st0, {})
           st2 == IF st1.users[held.user] = held.row
                  THEN [st1 EXCEPT !.users = users] ELSE st1
       IN \E cur \in Batches(env) : Finish(held.e, st2, env, cur)
    /\ held' = [held EXCEPT !.e = NoEvent, !.user = 0, !.row = NoRow]

Command(e, env) ==
    /\ e.kind = "msg"
    /\ e.text = "/start"
    /\ parseUpdate(e, env)

MessageNotFound(e, env) ==
    /\ e.kind = "msg"
    /\ e.text # "/start"
    /\ Sender(e) = 0
    /\ parseUpdate(e, env)

MessageUser(e, env) ==
    /\ e.kind = "msg"
    /\ e.text # "/start"
    /\ Sender(e) # 0
    /\ ~users[Sender(e)].emp
    /\ users[Sender(e)].state = SQuestion => e.text \in {"Close"} \cup QuestionTexts
    /\ parseUpdate(e, env)

MessageEmployee(e, env) ==
    /\ e.kind = "msg"
    /\ e.text # "/start"
    /\ Sender(e) # 0
    /\ users[Sender(e)].emp
    /\ parseUpdate(e, env)

CallbackNotFound(e, env) ==
    /\ e.kind = "cb"
    /\ Sender(e) = 0
    /\ parseUpdate(e, env)

CallbackUser(e, env) ==
    /\ e.kind = "cb"
    /\ Sender(e) # 0
    /\ ~users[Sender(e)].emp
    /\ parseUpdate(e, env)

CallbackEmployee(e, env) ==
    /\ e.kind = "cb"
    /\ Sender(e) # 0
    /\ users[Sender(e)].emp
    /\ parseUpdate(e, env)

\* ------------------------------------------------------------ the console
Console(cmd, id, tbl) ==
    /\ Len(tbl) <= MaxUsers
    /\ users' = tbl
    /\ last' = [kind |-> cmd, chat |-> id, text |-> "", data |-> <<>>, msg |-> 0]
    /\ sent' = <<>>
    /\ failed' = FALSE
    /\ UNCHANGED <<questions, corr, reviews, pending, batch, held>>

ConsoleAdd(id) == Console("abi", id, AddEmployeeByID(users, id))

ConsoleRemove(id) == Console("rbi", id, RemoveEmployeeByID(users, id))

\* The first half of AddEmployeeByID and RemoveEmployeeByID: First has
\* loaded the row of chat id, or left the zero value.
ConsoleLoad(cmd, id) ==
    /\ held.cmd = "none"
    /\ LET u == First({i \in DOMAIN users : users[i].chat = id})
       IN held' = [held EXCEPT !.cmd = cmd, !.id = id, !.found = u,
                               !.crow = IF u = 0 THEN NoRow ELSE users[u]]
    /\ UNCHANGED <<users, questions, corr, reviews, last, sent, failed, pending, batch>>

\* The second half: Save of the loaded row, all columns of it, with the
\* chat id and the employee flag set; a row with the zero key is inserted.
ConsoleSave ==
    /\ held.cmd # "none"
    /\ LET row == [held.crow EXCEPT !.chat = held.id, !.emp = (held.cmd = "abi")]
           tbl == IF held.found = 0 THEN Append(users, row)
                  ELSE [users EXCEPT ![held.found] = row]
       IN /\ Len(tbl) <= MaxUsers
          /\ users' = tbl
    /\ last' = [kind |-> held.cmd, chat |-> held.id, text |-> "", data |-> <<>>, msg |-> 0]
    /\ sent' = <<>>
    /\ failed' = FALSE
    /\ held' = [held EXCEPT !.cmd = "none", !.id = 0, !.found = 0, !.crow = NoRow]
    /\ UNCHANGED <<questions, corr, reviews, pending, batch>>

\* ------------------------------------------------------------------- specs
\* The store when the bot starts: the operator has registered the staff at
\* the console ("abi 2", "abi 3"), nobody has talked to the bot yet.
Init ==
    /\ users = AddEmployeeByID(AddEmployeeByID(<<>>, 2), 3)
    /\ questions = <<>>
    /\ corr = <<>>
    /\ reviews = <<>>
    /\ last = NoEvent
    /\ sent = <<>>
    /\ failed = FALSE
    /\ pending = NoEvent
    /\ batch = [size |-> 0, done |-> 0, passed |-> 0]
    /\ held = Idle

\* One employee only ("abi 2"): chats 1 and 3 are customers.
InitTwoAskers ==
    /\ users = AddEmployeeByID(<<>>, 2)
    /\ questions = <<>>
    /\ corr = <<>>
    /\ reviews = <<>>
    /\ last = NoEvent
    /\ sent = <<>>
    /\ failed = FALSE
    /\ pending = NoEvent
    /\ batch = [size |-> 0, done |-> 0, passed |-> 0]
    /\ held = Idle

\* The dispatcher, fed with text messages of T.
Dispatch(T, env) ==
    \/ \E e \in Fetched(T) : Command(e, env)
    \/ \E e \in Fetched(T) : MessageNotFound(e, env)
    \/ \E e \in Fetched(T) : MessageUser(e, env)
    \/ \E e \in Fetched(T) : MessageEmployee(e, env)
    \/ \E e \in Fetched(T) : CallbackNotFound(e, env)
    \/ \E e \in Fetched(T) : CallbackUser(e, env)
    \/ \E e \in Fetched(T) : CallbackEmployee(e, env)

\* The gateway delivers every message.
Next == Dispatch(Texts, Reliable)

Spec == Init /\ [][Next]_vars

NextTwoAskers == Dispatch(Texts \ {"Receive questions"}, Reliable)

SpecTwoAskers == InitTwoAskers /\ [][NextTwoAskers]_vars

\* One customer and two employees who claim, leave and look questions up
\* by number; up to MaxReplay entries are stored.
ReplayTexts == {"/start", "Question", "hello", "Back", "Find a question", "1"}

Replaying == [lossy |-> FALSE, maxCorr |-> MaxReplay, maxBatch |-> 1]

NextReplay == Dispatch(ReplayTexts, Replaying)

SpecReplay == Init /\ [][NextReplay]_vars

\* The fetcher with a gateway that may reject any Send and fetches that
\* return up to MaxBatch updates.
FetchTexts == {"/start", "Question", "Close"}

Fetching == [lossy |-> TRUE, maxCorr |-> MaxCorr, maxBatch |-> MaxBatch]

NextFetcher == Dispatch(FetchTexts, Fetching)

SpecFetcher == Init /\ [][NextFetcher]_vars

\* A parseUpdate call of the fetcher in which the gateway rejects no Send.
DeliveredStep == Dispatch(FetchTexts, [Fetching EXCEPT !.lossy = FALSE])

\* The fetcher's loop never stops while an update is there, and a Send
\* that is tried again and again is delivered in the end.
SpecFetcherFair ==
    /\ SpecFetcher
    /\ WF_vars(NextFetcher)
    /\ SF_vars(DeliveredStep)

\* Customers who leave reviews, by stars and by digit.
ReviewTexts == {"/start", "Review", "***", "5", "Close", "hello"}

NextReviews == Dispatch(ReviewTexts, Reliable)

SpecReviews == InitTwoAskers /\ [][NextReviews]_vars

\* Two customers and an employee who lists the open questions, looks at
\* reviews and comes back.
StaffTexts == {"/start", "Question", "hello", "Back", "Open questions", "Reviews"}

NextStaff == Dispatch(StaffTexts, Reliable)

SpecStaff == InitTwoAskers /\ [][NextStaff]_vars

\* One customer and two employees who claim and look questions up while
\* the gateway may reject any Send; the run stores MaxLossyQuestions
\* questions at most.
LossyTexts == {"/start", "Question", "hello", "Find a question", "1"}

LossyReplaying == [lossy |-> TRUE, maxCorr |-> MaxReplay, maxBatch |-> 1]

NextLossyReplay ==
    /\ Dispatch(LossyTexts, LossyReplaying)
    /\ Len(questions') <= MaxLossyQuestions

SpecLossyReplay == Init /\ [][NextLossyReplay]_vars

\* The console and the dispatcher side by side: the operator makes chat 1
\* an employee and a customer again while the employees switch receiving.
ConsoleTexts == {"/start", "Receive questions"}

ConsoleChats == {1}

NextConsole ==
    \/ Dispatch(ConsoleTexts, Reliable)
    \/ \E e \in Fetched(ConsoleTexts) : Load(e)
    \/ Resume(Reliable)
    \/ \E cmd \in {"abi", "rbi"} : \E id \in ConsoleChats : ConsoleLoad(cmd, id)
    \/ ConsoleSave

SpecConsole == Init /\ [][NextConsole]_vars

\* ------------------------------------------------------------- properties
\* The rows the dispatcher finds for some chat.
LiveRows == {u \in DOMAIN users : GetUserByChatID(users[u].chat, Begin) = u}

EmployeesIn(state) == {u \in LiveRows : users[u].emp /\ users[u].state = state}

CustomersIn(state) == {u \in LiveRows : ~users[u].emp /\ users[u].state = state}

\* A text message and a button press of the participant of row u.
Message(u, t) ==
    [kind |-> "msg", chat |-> users[u].chat, text |-> t, data |-> <<>>, msg |-> Len(corr) + 1]

Press(u, d) == [kind |-> "cb", chat |-> users[u].chat, text |-> "", data |-> d, msg |-> 0]

\* The tables a call left, handed to the next call.
Again(st) == [st EXCEPT !.out = <<>>, !.n = 0, !.failed = FALSE, !.err = FALSE]

Delivered(m, out) == \E i \in DOMAIN out : out[i] = m

Count(m, out) == Cardinality({i \in DOMAIN out : out[i] = m})

SameTables(st) ==
    /\ st.users = users
    /\ st.questions = questions
    /\ st.corr = corr
    /\ st.reviews = reviews

C2_FailedClaimChangesNothing ==
    \A q \in DOMAIN questions : \A u \in EmployeesIn(SMain) :
        (questions[q].closed \/ questions[q].answerer # 0) =>
            LET s1 == Handle(Press(u, OfferData(q)), {})
            IN /\ Delivered(Msg(users[u].chat, "taken", 0), s1.out)
               /\ SameTables(s1)

OpenAskedBy(u) == {q \in DOMAIN questions : questions[q].user = u /\ ~questions[q].closed}

OpenAnsweredBy(u) ==
    {q \in DOMAIN questions : questions[q].answerer = u /\ ~questions[q].closed}

\* C3: with a gateway that delivers every message, every participant is the
\* asker of at most one unclosed question in every reachable state.
C3_OneOpenQuestionPerAsker ==
    \A u \in DOMAIN users : Cardinality(OpenAskedBy(u)) <= 1

\* C3 witness: a customer who closed a question has just asked the next.
C3_Witness ==
    /\ last.kind = "msg"
    /\ last.text \in QuestionTexts
    /\ Sender(last) # 0
    /\ users[Sender(last)].state = SQuestionDiscussion
    /\ \E q1, q2 \in DOMAIN questions :
         /\ q1 < q2
         /\ questions[q1].user = Sender(last)
         /\ questions[q2].user = Sender(last)
         /\ questions[q1].closed
         /\ ~questions[q2].closed

\* C4 as claimed: every employee is the answerer of at most one unclosed
\* question in every reachable state.
C4_OneOpenQuestionPerAnswerer ==
    \A u \in DOMAIN users : Cardinality(OpenAnsweredBy(u)) <= 1

\* The offers of question q delivered by a call are exactly one to the chat
\* of every row with both flags set.
OffersReachReceivers(q, out) ==
    \A c \in Chats :
        Count(Msg(c, "offer", q), out) =
            IF \E r \in DOMAIN users : users[r].chat = c /\ users[r].emp /\ users[r].recv
            THEN 1 ELSE 0

\* C5 as claimed: when a customer in Question sends a text other than
\* "Close", an offer of the new question goes to every participant whose
\* employee and accepting flags are both true, and to nobody else.
C5_FanOutReachesAllReceivers ==
    \A u \in CustomersIn(SQuestion) : \A t \in Texts \ {"/start", "Close"} :
        OffersReachReceivers(Len(questions) + 1, Handle(Message(u, t), {}).out)

\* The question the employee of row u releases with "Back".
Released(u) == GetOpenQuestionByAnswerer(u, Begin)

\* After "Back" of u the released question has no answerer, is unclosed and
\* u is in Main.
ReleaseClears(u) ==
    LET s1 == Handle(Message(u, "Back"), {})
    IN /\ s1.questions[Released(u)].answerer = 0
       /\ ~s1.questions[Released(u)].closed
       /\ s1.users[u].state = SMain

\* After "Back" of u a press of the released question's button by employee
\* e, in Main then, makes e its answerer.
ClaimableAfterRelease(u, e) ==
    LET s1 == Handle(Message(u, "Back"), {})
        s2 == HandleIn(Press(e, OfferData(Released(u))), {}, Again(s1))
    IN s1.users[e].state = SMain =>
          /\ s2.questions[Released(u)].answerer = e
          /\ ~Delivered(Msg(users[e].chat, "taken", 0), s2.out)

EntryAppended(q, m, u, st) ==
    /\ Len(st.corr) = Len(corr) + 1
    /\ SubSeq(st.corr, 1, Len(corr)) = corr
    /\ st.corr[Len(st.corr)].question = q
    /\ st.corr[Len(st.corr)].msg = m
    /\ st.corr[Len(st.corr)].user = u

\* C7: when a customer in Question sends a text other than "Close", one
\* question is appended with that customer as asker, that text, no
\* answerer, haveAnswer and closed false, and the customer's state becomes
\* QuestionDiscussion; on "Close" no question is created and the state
\* becomes Main.
C7_QuestionCreated ==
    \A u \in CustomersIn(SQuestion) : \A t \in Texts \ {"/start"} :
        LET s1 == Handle(Message(u, t), {})
        IN IF t = "Close"
           THEN s1.questions = questions /\ s1.users[u].state = SMain
           ELSE /\ s1.questions =
                      Append(questions, [user |-> u, answerer |-> 0, header |-> t,
                                         haveAnswer |-> FALSE, closed |-> FALSE])
                /\ s1.users[u].state = SQuestionDiscussion

\* C7 witness: a customer has just asked a question.
C7_Witness ==
    /\ last.kind = "msg"
    /\ last.text \in QuestionTexts
    /\ Sender(last) \in CustomersIn(SQuestionDiscussion)
    /\ questions # <<>>
    /\ questions[Len(questions)] =
          [user |-> Sender(last), answerer |-> 0, header |-> last.text,
           haveAnswer |-> FALSE, closed |-> FALSE]
    /\ Delivered(Msg(last.chat, "yourquestion", Len(questions)), sent)

\* C8: when a customer in QuestionDiscussion who has an unclosed question
\* sends "Close", that question becomes closed and nothing else of it
\* changes, one entry for the message is appended to it, the message is
\* forwarded to the answerer's chat when an answerer is set and to nobody
\* when none is, and the customer's state becomes Main.
C8_CustomerClose ==
    \A u \in CustomersIn(SQuestionDiscussion) :
        OpenAskedBy(u) # {} =>
            LET q == GetOpenQuestionByUser(u, Begin)
                m == Len(corr) + 1
                s1 == Handle(Message(u, "Close"), {})
            IN /\ s1.questions = [questions EXCEPT ![q].closed = TRUE]
               /\ EntryAppended(q, m, u, s1)
               /\ s1.out = IF questions[q].answerer # 0
                           THEN <<Msg(users[questions[q].answerer].chat, "forward", m),
                                  Msg(users[u].chat, "prompt", SMain)>>
                           ELSE <<Msg(users[u].chat, "prompt", SMain)>>
               /\ s1.users = [users EXCEPT ![u].state = SMain]

\* C8 witness: a customer has just closed a question an employee answers.
C8_Witness ==
    /\ last.kind = "msg"
    /\ last.text = "Close"
    /\ Sender(last) \in CustomersIn(SMain)
    /\ \E q \in DOMAIN questions : \E k \in DOMAIN corr :
         /\ questions[q].user = Sender(last)
         /\ questions[q].closed
         /\ questions[q].answerer # 0
         /\ corr[k].question = q
         /\ corr[k].msg = last.msg
         /\ Delivered(Msg(users[questions[q].answerer].chat, "forward", last.msg), sent)

\* C9: when an employee in QuestionDiscussion who answers an unclosed
\* question sends a text other than "Back", a copy goes to the asker's chat
\* and nothing else is sent, the question's haveAnswer becomes true, one
\* entry for the message is appended to it and no participant row changes.
C9_EmployeeReply ==
    \A u \in EmployeesIn(SQuestionDiscussion) : \A t \in Texts \ {"/start", "Back"} :
        OpenAnsweredBy(u) # {} =>
            LET q == GetOpenQuestionByAnswerer(u, Begin)
                m == Len(corr) + 1
                s1 == Handle(Message(u, t), {})
            IN /\ s1.out = <<Msg(users[questions[q].user].chat, "copy", m)>>
               /\ s1.questions = [questions EXCEPT ![q].haveAnswer = TRUE]
               /\ EntryAppended(q, m, u, s1)
               /\ s1.users = users

\* C9 witness: an employee has just replied to the question they answer.
C9_Witness ==
    /\ last.kind = "msg"
    /\ Sender(last) \in EmployeesIn(SQuestionDiscussion)
    /\ \E q \in OpenAnsweredBy(Sender(last)) :
         /\ questions[q].haveAnswer
         /\ sent = <<Msg(users[questions[q].user].chat, "copy", last.msg)>>
         /\ corr # <<>>
         /\ corr[Len(corr)].question = q
         /\ corr[Len(corr)].msg = last.msg
         /\ corr[Len(corr)].user = Sender(last)

\* C10: when a customer in QuestionDiscussion who has an unclosed question
\* sends a text other than "Close", the message is forwarded to the
\* answerer's chat when an answerer is set and nothing is sent when none
\* is, the question's haveAnswer becomes false, one entry for the message is
\* appended to it and no participant row changes.
C10_CustomerMessage ==
    \A u \in CustomersIn(SQuestionDiscussion) : \A t \in Texts \ {"/start", "Close"} :
        OpenAskedBy(u) # {} =>
            LET q == GetOpenQuestionByUser(u, Begin)
                m == Len(corr) + 1
                s1 == Handle(Message(u, t), {})
            IN /\ s1.out = IF questions[q].answerer # 0
                           THEN <<Msg(users[questions[q].answerer].chat, "forward", m)>>
                           ELSE <<>>
               /\ s1.questions = [questions EXCEPT ![q].haveAnswer = FALSE]
               /\ EntryAppended(q, m, u, s1)
               /\ s1.users = users

\* C10 witness: a customer's message has just been forwarded to the
\* employee who answers the question.
C10_Witness ==
    /\ last.kind = "msg"
    /\ last.text # "Close"
    /\ Sender(last) \in CustomersIn(SQuestionDiscussion)
    /\ \E q \in OpenAskedBy(Sender(last)) :
         /\ questions[q].answerer # 0
         /\ ~questions[q].haveAnswer
         /\ sent = <<Msg(users[questions[q].answerer].chat, "forward", last.msg)>>
         /\ corr # <<>>
         /\ corr[Len(corr)].question = q
         /\ corr[Len(corr)].msg = last.msg
         /\ corr[Len(corr)].user = Sender(last)

\* The entries of question q, as indices of corr.
EntriesOf(q) == {k \in DOMAIN corr : corr[k].question = q}

\* out is the forwarding to chat c of every entry of question q, each once
\* and in ascending order of creation, and of nothing else.
IsReplay(out, q, c) ==
    /\ Len(out) = Cardinality(EntriesOf(q))
    /\ \E f \in [DOMAIN out -> EntriesOf(q)] :
         /\ \A i, j \in DOMAIN out : i < j => f[i] < f[j]
         /\ \A i \in DOMAIN out : out[i] = Msg(c, "forward", corr[f[i]].msg)

\* The questions a press of employee e claims.
Claimable == {q \in DOMAIN questions : GetNewQuestionById(q, Begin) = q}

\* C11: with every message delivered, a successful claim sends the
\* claiming employee the replay of the question's entries (every entry of
\* that question once, in ascending order of creation, no entry of another
\* question) followed by the prompt of QuestionDiscussion; a lookup by
\* number in SearchQuestion sends the header followed by the same replay.
C11_ReplayInOrder ==
    /\ \A e \in EmployeesIn(SMain) : \A q \in Claimable :
         LET out == Handle(Press(e, OfferData(q)), {}).out
         IN /\ out # <<>>
            /\ out[Len(out)] = Msg(users[e].chat, "prompt", SQuestionDiscussion)
            /\ IsReplay(SubSeq(out, 1, Len(out) - 1), q, users[e].chat)
    /\ \A e \in EmployeesIn(SSearchQuestion) : \A q \in DOMAIN questions :
         LET out == Handle(Message(e, DigitChar(q)), {}).out
         IN /\ out # <<>>
            /\ out[1] = Msg(users[e].chat, "header", q)
            /\ IsReplay(Tail(out), q, users[e].chat)

\* C11 witness: an employee has just claimed a question and got its two
\* entries, the older first.
C11_Witness ==
    /\ last.kind = "cb"
    /\ Sender(last) \in EmployeesIn(SQuestionDiscussion)
    /\ \E q \in DOMAIN questions :
         /\ last.data = OfferData(q)
         /\ questions[q].answerer = Sender(last)
         /\ EntriesOf(q) = {1, 2}
         /\ sent = <<Msg(last.chat, "forward", corr[1].msg),
                     Msg(last.chat, "forward", corr[2].msg),
                     Msg(last.chat, "prompt", SQuestionDiscussion)>>

\* The fail sets of a call that makes n sends when none fails.
AnyFails(n) == SUBSET (1..n)

\* C12: on the press of a claimable question's button by an employee in
\* Main, whichever sends the gateway rejects: the answerer is the employee
\* (it is set before the first forward); the employee's state is
\* QuestionDiscussion only if every entry was forwarded, and is Main
\* otherwise; with nothing rejected the call sends the replay, then the
\* prompt, and the state is QuestionDiscussion.  A message a customer in
\* QuestionDiscussion sends to a question nobody answers is among the
\* entries forwarded at the next claim.
C12_ClaimStepsInOrder ==
    /\ \A e \in EmployeesIn(SMain) : \A q \in Claimable :
         \A F \in AnyFails(Handle(Press(e, OfferData(q)), {}).n) :
            LET s1 == Handle(Press(e, OfferData(q)), F)
                forwards == {i \in DOMAIN s1.out : s1.out[i].kind = "forward"}
            IN /\ s1.questions[q].answerer = e
               /\ s1.users[e].state \in {SMain, SQuestionDiscussion}
               /\ s1.users[e].state = SQuestionDiscussion =>
                     /\ Cardinality(forwards) = Cardinality(EntriesOf(q))
                     /\ s1.out[Len(s1.out)] = Msg(users[e].chat, "prompt", SQuestionDiscussion)
               /\ F = {} => s1.users[e].state = SQuestionDiscussion
               /\ Cardinality(forwards) < Cardinality(EntriesOf(q)) =>
                     s1.users[e].state = SMain /\ s1.err
    /\ \A u \in CustomersIn(SQuestionDiscussion) : \A e \in EmployeesIn(SMain) :
         \A t \in Texts \ {"/start", "Close"} :
            (OpenAskedBy(u) # {} /\ questions[GetOpenQuestionByUser(u, Begin)].answerer = 0) =>
               LET q == GetOpenQuestionByUser(u, Begin)
                   s1 == Handle(Message(u, t), {})
                   s2 == HandleIn(Press(e, OfferData(q)), {}, Again(s1))
               IN /\ s2.questions[q].answerer = e
                  /\ Delivered(Msg(users[e].chat, "forward", Len(corr) + 1), s2.out)
                  /\ s2.users[e].state = SQuestionDiscussion

\* C12 witness: an employee has just claimed a question the asker had
\* written to, got that message and is in QuestionDiscussion.
C12_Witness ==
    /\ last.kind = "cb"
    /\ Sender(last) \in EmployeesIn(SQuestionDiscussion)
    /\ \E q \in DOMAIN questions : \E k \in DOMAIN corr :
         /\ last.data = OfferData(q)
         /\ questions[q].answerer = Sender(last)
         /\ corr[k].question = q
         /\ corr[k].user = questions[q].user
         /\ Delivered(Msg(last.chat, "forward", corr[k].msg), sent)
         /\ sent[Len(sent)] = Msg(last.chat, "prompt", SQuestionDiscussion)

\* C13 as claimed: when an update of a batch failed, the offset is the one
\* the batch was fetched at.
C13_CursorAfterBatchOriginal == pending # NoEvent => batch.passed = 0

\* C13 amended: the offset is one past the last update of the batch that was
\* processed without error: it has passed every update handed to
\* parseUpdate when none failed, and every one but the failed update, the
\* last one handed over, when one failed.
C13_CursorPerEvent ==
    /\ batch.done <= batch.size
    /\ batch.passed = IF pending = NoEvent THEN batch.done ELSE batch.done - 1

\* C13 witness: the second update of a batch of two has just failed, the
\* offset has passed the first.
C13_Witness ==
    /\ pending # NoEvent
    /\ last = pending
    /\ batch = [size |-> 2, done |-> 2, passed |-> 1]

\* C14 as claimed: an update whose processing returned an error is not
\* processed again.
C14_NoRetry == [][pending # NoEvent => last' # pending]_vars

\* The handles a /start of chat c may carry: its username, or none when the
\* user has set none.
Handles(c) == {0, Nickname(c)}

\* C15 as claimed: /start from chat c, whatever handle it carries, leaves
\* the record of every other chat as it is.
C15_KeyedByChat ==
    \A c \in Chats : \A nick \in Handles(c) :
        LET s1 == parseCommand(c, nick, Begin, {})
        IN \A r \in DOMAIN users : users[r].chat # c => s1.users[r] = users[r]

\* After the call that left st, chat c has a record in state Main and is
\* the chat of no asker of an unclosed question.
StartedAfresh(c, st) ==
    /\ GetUserByChatID(c, st) # 0
    /\ st.users[GetUserByChatID(c, st)].state = SMain
    /\ \A q \in DOMAIN st.questions :
         ~st.questions[q].closed => st.users[st.questions[q].user].chat # c

\* C16 as claimed: after a /start of chat c, whatever handle it carries,
\* that returned no error, the participant is in Main and asks no unclosed
\* question.
C16_StartResets ==
    \A c \in Chats : \A nick \in Handles(c) :
        \A F \in AnyFails(parseCommand(c, nick, Begin, {}).n) :
            LET s1 == parseCommand(c, nick, Begin, F)
            IN ~s1.err => StartedAfresh(c, s1)

\* The run of n stars.
Stars == <<"*", "**", "***", "****", "*****">>

\* Texts that are no rating.
NoRatings == (Texts \ {"/start"}) \cup {"Review", "0", "6", "******", "3 ", "three"}

\* C17: for a customer in Review and every n in 1..5, the run of n stars
\* and the digit n each append one review of that customer with rating n
\* and an empty text and the state becomes ReviewText; a text that is no
\* rating leaves the reviews and the state Review as they are; every
\* stored review has a rating in 1..5.
C17_RatingParsed ==
    /\ \A u \in CustomersIn(SReview) : \A n \in 1..5 : \A t \in {Stars[n], DigitChar(n)} :
         LET s1 == Handle(Message(u, t), {})
         IN /\ s1.reviews = Append(reviews, [user |-> u, rating |-> n, text |-> ""])
            /\ s1.users = [users EXCEPT ![u].state = SReviewText]
    /\ \A u \in CustomersIn(SReview) : \A t \in NoRatings :
         LET s1 == Handle(Message(u, t), {})
         IN s1.reviews = reviews /\ s1.users = users
    /\ \A r \in DOMAIN reviews : reviews[r].rating \in 1..5

\* C17 witness: a customer has just rated with the digit 5.
C17_Witness ==
    /\ last.kind = "msg"
    /\ last.text = "5"
    /\ Sender(last) \in CustomersIn(SReviewText)
    /\ reviews # <<>>
    /\ reviews[Len(reviews)] = [user |-> Sender(last), rating |-> 5, text |-> ""]
    /\ sent = <<Msg(last.chat, "prompt", SReviewText)>>

\* The two captions of the receive toggle.
ToggleTexts == {"Receive questions", "Do not receive questions"}

\* C18: when an employee in Main sends either toggle text, whichever sends
\* the gateway rejects, the accepting flag is the negation of what it was,
\* nothing else of the record changes and the state is Main; with nothing
\* rejected the confirmation of the new value is the one message sent; a
\* second toggle text, either of them, restores the flag.
C18_SwitchReceiverToggles ==
    \A e \in EmployeesIn(SMain) : \A t \in ToggleTexts :
        /\ \A F \in AnyFails(Handle(Message(e, t), {}).n) :
              Handle(Message(e, t), F).users = [users EXCEPT ![e].recv = ~users[e].recv]
        /\ Handle(Message(e, t), {}).out =
              <<Msg(users[e].chat, IF users[e].recv THEN "receiveoff" ELSE "receiveon", 0)>>
        /\ \A t2 \in ToggleTexts :
              HandleIn(Message(e, t2), {}, Again(Handle(Message(e, t), {}))).users = users

\* C18 witness: an employee in Main has just switched receiving on.
C18_Witness ==
    /\ last.kind = "msg"
    /\ last.text \in ToggleTexts
    /\ Sender(last) \in EmployeesIn(SMain)
    /\ users[Sender(last)].recv
    /\ sent = <<Msg(last.chat, "receiveon", 0)>>

\* The menu texts of the two roles in Main.
UserMain == {"Review", "Question"}

EmplMain == ToggleTexts \cup {"Open questions", "Find a question", "Reviews"}

\* Texts of every kind: menu texts, ratings, captions of other states,
\* numbers and free text.
AnyTexts ==
    (Texts \ {"/start"}) \cup UserMain \cup EmplMain \cup RatingTexts
    \cup {"For a day", "For a week", "For a month", "All (no text)", "start", ""}

\* The call changed no table, sent nothing and returned no error.
NoOp(st) == SameTables(st) /\ st.out = <<>> /\ ~st.err

\* C19: for a customer in Main every text but "/start" and the customer's
\* two menu texts, and for an employee in Main every text but "/start" and
\* the employee's five menu texts, changes no table, sends nothing and
\* returns no error.
C19_UnrecognizedIsNoOp ==
    /\ \A u \in CustomersIn(SMain) : \A t \in AnyTexts \ UserMain :
         NoOp(Handle(Message(u, t), {}))
    /\ \A e \in EmployeesIn(SMain) : \A t \in AnyTexts \ EmplMain :
         NoOp(Handle(Message(e, t), {}))

\* C19 witness: a customer and an employee are in Main, the fetcher may
\* hand over a text of each that is no menu text of theirs, and its
\* processing leaves no trace.
C19_Witness ==
    \E u \in CustomersIn(SMain) : \E e \in EmployeesIn(SMain) :
        /\ Message(u, "Back") \in Fetched(Texts)
        /\ Message(e, "Question") \in Fetched(Texts)
        /\ ~Effect(Handle(Message(u, "Back"), {}))
        /\ ~Effect(Handle(Message(e, "Question"), {}))
        /\ questions # <<>>

\* A text message of the participant of row u, sent after the call that
\* left st.
MessageIn(u, t, st) ==
    [kind |-> "msg", chat |-> st.users[u].chat, text |-> t, data |-> <<>>,
     msg |-> Len(st.corr) + 1]

\* Some sequence of at most k texts of the participant of row u, none of
\* them "/start" and every message delivered, ends with u in Main.
RECURSIVE CanReachMain(_, _, _)
CanReachMain(u, st, k) ==
    \/ st.users[u].state = SMain
    \/ /\ k > 0
       /\ \E t \in AnyTexts :
            CanReachMain(u, Again(HandleIn(MessageIn(u, t, st), {}, st)), k - 1)

\* C20 as claimed: from every reachable state every participant, customer
\* or employee, has inputs other than "/start" that bring them to Main.
C20_MainReachable == \A u \in LiveRows : CanReachMain(u, Begin, 2)

\* The questions that are unclosed, have no answerer and are not answered.
NewQuestions ==
    {q \in DOMAIN questions :
        ~questions[q].closed /\ questions[q].answerer = 0 /\ ~questions[q].haveAnswer}

\* out is one offer to chat c for every question of Q, in ascending order
\* of id, and nothing else.
IsOffers(out, Q, c) ==
    /\ Len(out) = Cardinality(Q)
    /\ \A i \in DOMAIN out : out[i].to = c /\ out[i].kind = "offer" /\ out[i].ref \in Q
    /\ \A i, j \in DOMAIN out : i < j => out[i].ref < out[j].ref

\* C22: when an employee in Main sends "Open questions" and every message
\* is delivered, the messages sent are one offer for every question that
\* is unclosed, has no answerer and is not answered, in ascending order of
\* id ("No questions" when there is none), no table changes and the state
\* is Main; whichever sends are rejected, no offer is for a question that
\* has an answerer, is answered or is closed.
C22_OpenQuestionsListed ==
    \A e \in EmployeesIn(SMain) :
        /\ LET s1 == Handle(Message(e, "Open questions"), {})
           IN /\ IF NewQuestions = {}
                 THEN s1.out = <<Msg(users[e].chat, "noquestions", 0)>>
                 ELSE IsOffers(s1.out, NewQuestions, users[e].chat)
              /\ SameTables(s1)
              /\ s1.users[e].state = SMain
        /\ \A F \in AnyFails(Handle(Message(e, "Open questions"), {}).n) :
              LET out == Handle(Message(e, "Open questions"), F).out
              IN \A i \in DOMAIN out : out[i].kind = "offer" => out[i].ref \in NewQuestions

\* C22 witness: an employee in Main has just listed the open questions and
\* got the offer of question 2 alone, question 1 being unclosed, released
\* and answered.
C22_Witness ==
    /\ last.kind = "msg"
    /\ last.text = "Open questions"
    /\ Sender(last) \in EmployeesIn(SMain)
    /\ Len(questions) = 2
    /\ ~questions[1].closed /\ questions[1].answerer = 0 /\ questions[1].haveAnswer
    /\ sent = <<Msg(last.chat, "offer", 2)>>

\* C23 as claimed: the entry appended for the reply of an employee who
\* answers an unclosed question carries the employee marker, the entry
\* appended for a customer's message to their unclosed question does not.
C23_EmployeeMarker ==
    /\ \A e \in EmployeesIn(SQuestionDiscussion) : \A t \in Texts \ {"/start", "Back"} :
         GetOpenQuestionByAnswerer(e, Begin) # 0 =>
            LET s1 == Handle(Message(e, t), {})
            IN /\ Len(s1.corr) = Len(corr) + 1
               /\ s1.corr[Len(s1.corr)].user = e
               /\ s1.corr[Len(s1.corr)].emp
    /\ \A u \in CustomersIn(SQuestionDiscussion) : \A t \in Texts \ {"/start", "Close"} :
         GetOpenQuestionByUser(u, Begin) # 0 =>
            LET s1 == Handle(Message(u, t), {})
            IN /\ Len(s1.corr) = Len(corr) + 1
               /\ s1.corr[Len(s1.corr)].user = u
               /\ ~s1.corr[Len(s1.corr)].emp

\* A text message of chat c.
MessageOf(c, t) ==
    [kind |-> "msg", chat |-> c, text |-> t, data |-> <<>>, msg |-> Len(corr) + 1]

\* C24 as claimed: a text message other than "/start" from a chat that has
\* no record changes no table and makes the bot send a message, to that
\* chat and to no other.
C24_NotFoundSurfaced ==
    \A c \in Chats : \A t \in AnyTexts :
        GetUserByChatID(c, Begin) = 0 =>
            LET s1 == Handle(MessageOf(c, t), {})
            IN /\ SameTables(s1)
               /\ s1.out # <<>>
               /\ \A i \in DOMAIN s1.out : s1.out[i].to = c

\* The call that left st ended with the prompt of the state it wrote for
\* the participant of row u.
PromptedLast(u, st) ==
    /\ st.out # <<>>
    /\ st.out[Len(st.out)] = Msg(users[u].chat, "prompt", st.users[u].state)
    /\ st.users[u].state # users[u].state

\* C25 as claimed: when a text or a button press makes the handler write a
\* new state for the sender and then send the prompt of that state, and
\* the gateway rejects just that prompt, the sender's state is afterwards
\* the one it was before the call.
C25_RollbackToPrevious ==
    \A u \in LiveRows :
        \A e \in {Message(u, t) : t \in AnyTexts} \cup {Press(u, d) : d \in CallbackDatas} :
            PromptedLast(u, Handle(e, {})) =>
                Handle(e, {Handle(e, {}).n}).users[u].state = users[u].state

\* The comment stored for text t.
Comment(t) == IF t = "Close" THEN "-" ELSE t

\* C26 as claimed: when a customer in Review rates and then, in
\* ReviewText, sends text t, the review the rating created gets the
\* comment t ("-" for "Close"), no other review changes and the state
\* becomes Main.
C26_CommentOfLastRating ==
    \A u \in CustomersIn(SReview) : \A r \in RatingTexts : \A t \in {"hello", "Close"} :
        LET s1 == Again(Handle(Message(u, r), {}))
            s2 == HandleIn(MessageIn(u, t, s1), {}, s1)
        IN /\ s1.users[u].state = SReviewText
           /\ s2.reviews = [s1.reviews EXCEPT ![Len(s1.reviews)].text = Comment(t)]
           /\ s2.users[u].state = SMain

\* What an employee may type as a question number: texts of every kind and
\* the digits.
LookupTexts == (AnyTexts \cup Digits) \ {"Back"}

\* The existing question text t is the number of, 0 for none.
Named(t) == IF t \in Digits /\ DigitVal(t) \in DOMAIN questions THEN DigitVal(t) ELSE 0

\* C27: for an employee in SearchQuestion and every text but "Back" and
\* "/start", whichever sends the gateway rejects, no table changes (the
\* state stays SearchQuestion, no answerer is set) and no error is
\* returned; with every message delivered a text that is no number gets
\* "Wrong format" alone, a number of no question "Question not found"
\* alone, the number of a question its header first, all to the employee;
\* "Back" changes nothing but the employee's state, which becomes Main.
C27_SearchChangesNothing ==
    \A e \in EmployeesIn(SSearchQuestion) :
        /\ \A t \in LookupTexts :
              /\ \A F \in AnyFails(Handle(Message(e, t), {}).n) :
                    LET s1 == Handle(Message(e, t), F)
                    IN SameTables(s1) /\ ~s1.err
              /\ LET out == Handle(Message(e, t), {}).out
                 IN /\ \A i \in DOMAIN out : out[i].to = users[e].chat
                    /\ IF Named(t) # 0
                       THEN out # <<>> /\ out[1] = Msg(users[e].chat, "header", Named(t))
                       ELSE out = <<Msg(users[e].chat,
                                        IF t \in Digits THEN "notfound" ELSE "wrongformat", 0)>>
        /\ LET s1 == Handle(Message(e, "Back"), {})
           IN /\ s1.users = [users EXCEPT ![e].state = SMain]
              /\ s1.questions = questions /\ s1.corr = corr /\ s1.reviews = reviews
              /\ s1.out = <<Msg(users[e].chat, "prompt", SMain)>>

\* C27 witness: an employee in SearchQuestion has just typed a text that
\* is no number and got "Wrong format"; a question exists.
C27_Witness ==
    /\ last.kind = "msg"
    /\ last.text = "hello"
    /\ Sender(last) \in EmployeesIn(SSearchQuestion)
    /\ questions # <<>>
    /\ sent = <<Msg(last.chat, "wrongformat", 0)>>

\* The sends of a replay of n entries that forward an entry, when the
\* first forward is the send number first.
Forwards(first, n) == first..(first + n - 1)

\* st.corr is corr with entries appended, if any.
LogKept(st) ==
    /\ Len(st.corr) >= Len(corr)
    /\ \A k \in DOMAIN corr : st.corr[k] = corr[k]

\* Every update a chat can send: the texts, the button presses.
AnyUpdates ==
    {MessageOf(c, t) : c \in Chats, t \in Texts \cup LossyTexts}
    \cup
    {[kind |-> "cb", chat |-> c, text |-> "", data |-> d, msg |-> 0] :
        c \in Chats, d \in CallbackDatas}

\* C28: when the gateway rejects the k-th forward of a replay, on a claim
\* as on a lookup by number, the messages delivered are the first k - 1
\* forwards of the full replay (after the header, on a lookup), none of the
\* later ones, and the stored entries are what they were; no update,
\* whichever sends are rejected, changes or removes a stored entry.
C28_ReplayFailFast ==
    /\ \A e \in EmployeesIn(SMain) : \A q \in Claimable :
         \A k \in Forwards(1, Cardinality(EntriesOf(q))) :
            LET full == Handle(Press(e, OfferData(q)), {}).out
                s1 == Handle(Press(e, OfferData(q)), {k})
            IN /\ s1.out = SubSeq(full, 1, k - 1)
               /\ s1.corr = corr
               /\ s1.err
    /\ \A e \in EmployeesIn(SSearchQuestion) : \A q \in DOMAIN questions :
         \A k \in Forwards(2, Cardinality(EntriesOf(q))) :
            LET full == Handle(Message(e, DigitChar(q)), {}).out
                s1 == Handle(Message(e, DigitChar(q)), {k})
            IN /\ s1.out = SubSeq(full, 1, k - 1)
               /\ s1.corr = corr
    /\ \A e \in AnyUpdates : \A F \in AnyFails(Handle(e, {}).n) : LogKept(Handle(e, F))

\* C28 witness: the second forward of the replay of a claim has just been
\* rejected: the employee got the first entry alone and both entries are
\* stored as before.
C28_Witness ==
    /\ last.kind = "cb"
    /\ failed
    /\ pending = last
    /\ \E q \in DOMAIN questions :
         /\ last.data = OfferData(q)
         /\ questions[q].answerer = Sender(last)
         /\ EntriesOf(q) = {1, 2}
         /\ sent = <<Msg(last.chat, "forward", corr[1].msg)>>

\* C29: when an employee in Main presses the claim button of an unclosed
\* question they are the answerer of, no question and no entry changes
\* whichever sends are rejected; with every message delivered the employee
\* is sent "Question already taken" and then the prompt of
\* QuestionDiscussion, and the only change of the store is the employee's
\* state, which becomes QuestionDiscussion.
C29_OwnQuestionClaimedAgain ==
    \A e \in EmployeesIn(SMain) : \A q \in OpenAnsweredBy(e) :
        /\ \A F \in AnyFails(Handle(Press(e, OfferData(q)), {}).n) :
              LET s1 == Handle(Press(e, OfferData(q)), F)
              IN s1.questions = questions /\ s1.corr = corr
        /\ LET s1 == Handle(Press(e, OfferData(q)), {})
           IN /\ s1.out = <<Msg(users[e].chat, "taken", 0),
                            Msg(users[e].chat, "prompt", SQuestionDiscussion)>>
              /\ s1.users = [users EXCEPT ![e].state = SQuestionDiscussion]
              /\ s1.reviews = reviews

\* C29 witness: an employee has just pressed the claim button of the
\* unclosed question they answer, was told it is taken and is in
\* QuestionDiscussion.
C29_Witness ==
    /\ last.kind = "cb"
    /\ Sender(last) \in EmployeesIn(SQuestionDiscussion)
    /\ \E q \in OpenAnsweredBy(Sender(last)) : last.data = OfferData(q)
    /\ sent = <<Msg(last.chat, "taken", 0), Msg(last.chat, "prompt", SQuestionDiscussion)>>

\* C30 as claimed: an update whose parseUpdate returned an error, so that
\* the offset has not passed it, is passed by the offset in the end.
C30_EventuallyPassed == (pending # NoEvent) ~> (pending = NoEvent)

\* C21 as claimed: the Save that ends a console command changes no
\* participant's state or accepting flag, so that what the dispatcher wrote
\* since the console loaded the row is kept, and the step that ends a
\* dispatcher call changes no participant's employee flag, so that what
\* the console set since the dispatcher loaded the row is kept.
C21_NoLostWrite ==
    [][\A r \in DOMAIN users :
          /\ (held.cmd # "none" /\ held'.cmd = "none") =>
                 users'[r].state = users[r].state /\ users'[r].recv = users[r].recv
          /\ (held.e # NoEvent /\ held'.e = NoEvent) =>
                 users'[r].emp = users[r].emp]_vars

\* C31 as claimed: in every reachable state the answerer of every unclosed
\* question is in state QuestionDiscussion.
C31_NoOrphanedClaims ==
    \A q \in DOMAIN questions :
        (~questions[q].closed /\ questions[q].answerer # 0) =>
            users[questions[q].answerer].state = SQuestionDiscussion

\* The offers among the messages of out that went to chat c.
OffersTo(c, out) == Cardinality({i \in DOMAIN out : out[i].to = c /\ out[i].kind = "offer"})

\* C32 as claimed: when a customer in Question sends a question text, the
\* call returns an error after the question was stored (some send was
\* rejected) and the same update is processed again, one question has been
\* created for the message and every chat got one offer of it at most.
C32_RedeliveryKeepsOneQuestion ==
    \A u \in CustomersIn(SQuestion) : \A t \in QuestionTexts :
        \A F \in AnyFails(Handle(Message(u, t), {}).n) :
            LET s1 == Handle(Message(u, t), F)
                s2 == HandleIn(Message(u, t), {}, Again(s1))
            IN s1.err =>
                  /\ Len(s2.questions) = Len(questions) + 1
                  /\ \A c \in Chats : OffersTo(c, s1.out) + OffersTo(c, s2.out) <= 1

\* C33 as claimed: when an employee in Main sends a toggle text, the
\* gateway rejects the confirmation and the same update is processed again,
\* the accepting flag is the negation of what it was before the update.
C33_RedeliveryTogglesOnce ==
    \A e \in EmployeesIn(SMain) : \A t \in ToggleTexts :
        LET s1 == Handle(Message(e, t), {1})
            s2 == HandleIn(Message(e, t), {}, Again(s1))
        IN s1.err => s2.users[e].recv = ~users[e].recv

\* The entries of question q in the tables the call left.
EntriesIn(q, st) == {k \in DOMAIN st.corr : st.corr[k].question = q}

\* C34: for every update of every chat, whichever sends the gateway
\* rejects, a question that is closed stays closed, keeps its answerer and
\* its haveAnswer flag and gets no entry; and no text of an employee who
\* answers no unclosed question is copied to anybody.
C34_ClosedIsFrozen ==
    /\ \A e \in AnyUpdates : \A F \in AnyFails(Handle(e, {}).n) :
         \A q \in DOMAIN questions :
            questions[q].closed =>
               /\ Handle(e, F).questions[q] = questions[q]
               /\ EntriesIn(q, Handle(e, F)) = EntriesOf(q)
    /\ \A e \in LiveRows : \A t \in AnyTexts :
         (users[e].emp /\ OpenAnsweredBy(e) = {}) =>
            \A F \in AnyFails(Handle(Message(e, t), {}).n) :
               LET out == Handle(Message(e, t), F).out
               IN \A i \in DOMAIN out : out[i].kind # "copy"

\* C34 witness: the asker has closed the question an employee answers; the
\* employee is still in QuestionDiscussion, the fetcher may hand over the
\* employee's next reply, and its processing leaves no trace.
C34_Witness ==
    \E q \in DOMAIN questions :
        /\ questions[q].closed
        /\ questions[q].answerer \in EmployeesIn(SQuestionDiscussion)
        /\ EntriesOf(q) # {}
        /\ Message(questions[q].answerer, "hello") \in Fetched(Texts)
        /\ ~Effect(Handle(Message(questions[q].answerer, "hello"), {}))

\* The messages of out that carry message m of a discussion: forwards and
\* copies of it.  Stored entries carry lower message ids, so a replay has
\* none of these.
Carried(m, out) == {i \in DOMAIN out : out[i].kind \in {"forward", "copy"} /\ out[i].ref = m}

\* C35 (addressees in the store): for every text message of every
\* participant, whichever sends are rejected, the message is carried to
\* another chat only when the sender is in QuestionDiscussion: a customer's
\* to the chat of the answerer of the customer's unclosed question, an
\* employee's to the chat of the asker of an unclosed question the employee
\* is the answerer of.
C35_CarriedToThreadOnly ==
    \A u \in LiveRows : \A t \in AnyTexts :
        \A F \in AnyFails(Handle(Message(u, t), {}).n) :
            LET out == Handle(Message(u, t), F).out
            IN \A i \in Carried(Len(corr) + 1, out) :
                  /\ users[u].state = SQuestionDiscussion
                  /\ IF users[u].emp
                     THEN \E q \in OpenAnsweredBy(u) : out[i].to = users[questions[q].user].chat
                     ELSE \E q \in OpenAskedBy(u) :
                             /\ questions[q].answerer # 0
                             /\ out[i].to = users[questions[q].answerer].chat

\* The question whose discussion the employee of row e has entered: the
\* last update the employee sent was the press of its button, which made
\* the employee its answerer.
Entered(e) ==
    {q \in OpenAnsweredBy(e) :
        /\ last.kind = "cb"
        /\ Sender(last) = e
        /\ last.data = OfferData(q)
        /\ sent # <<>>
        /\ sent[1] # Msg(users[e].chat, "taken", 0)
        /\ users[e].state = SQuestionDiscussion}

\* C35 as claimed: the reply of an employee who has just entered the
\* discussion of a question is copied to the asker of that question and to
\* nobody else.
C35_ReplyStaysInThread ==
    \A e \in LiveRows : \A q \in Entered(e) : \A t \in Texts \ {"/start", "Back"} :
        Handle(Message(e, t), {}).out = <<Msg(users[questions[q].user].chat, "copy", Len(corr) + 1)>>

\* The most recent entry of question q, which has one.
LastEntry(q) == corr[CHOOSE k \in EntriesOf(q) : \A j \in EntriesOf(q) : j <= k]

\* C36: with every message delivered, in every reachable state the
\* haveAnswer flag of every unclosed question is true exactly when the
\* question has an entry and the sender of its most recent entry is an
\* employee.
C36_HaveAnswerTracksLastEntry ==
    \A q \in DOMAIN questions :
        ~questions[q].closed =>
            (questions[q].haveAnswer <=> (EntriesOf(q) # {} /\ users[LastEntry(q).user].emp))

\* C36 witness: the asker has just written to a question after the
\* employee's reply: two entries, the flag false again.
C36_Witness ==
    /\ last.kind = "msg"
    /\ Sender(last) \in CustomersIn(SQuestionDiscussion)
    /\ \E q \in OpenAskedBy(Sender(last)) :
         /\ EntriesOf(q) = {1, 2}
         /\ users[corr[1].user].emp
         /\ corr[2].user = Sender(last)
         /\ corr[2].msg = last.msg
         /\ ~questions[q].haveAnswer

\* C37: with every message delivered and the roles as the console left
\* them at the start, in every reachable state a participant who is no
\* employee is the asker of exactly one unclosed question when in state
\* QuestionDiscussion and of none in any other state.
C37_AskerIffInDiscussion ==
    \A u \in DOMAIN users :
        ~users[u].emp =>
            Cardinality(OpenAskedBy(u)) = IF users[u].state = SQuestionDiscussion THEN 1 ELSE 0

\* C37 witness: a customer in QuestionDiscussion has just sent /start: the
\* question, which has no closing entry, is closed and the customer is in
\* Main, while the other customer is in QuestionDiscussion with a question.
C37_Witness ==
    /\ last.kind = "msg"
    /\ last.text = "/start"
    /\ Sender(last) \in CustomersIn(SMain)
    /\ \E q \in DOMAIN questions :
         /\ questions[q].user = Sender(last)
         /\ questions[q].closed
         /\ EntriesOf(q) = {}
    /\ \E v \in CustomersIn(SQuestionDiscussion) : OpenAskedBy(v) # {}

\* Button payloads of every kind: the buttons of the offers, a claim
\* payload for a question that does not exist, a claim key without id, with
\* an empty id and with an id that is no number, another key, no number at
\* all.
Payloads ==
    CallbackDatas
    \cup {OfferData(MaxQuestions + 1), <<"1">>, <<"1", "-">>, <<"1", "-", "x">>,
          <<"2", "-", "1">>, <<"x", "-", "1">>, <<"-", "1">>}

\* Payload d is a claim payload that carries a number.
IsClaim(d) ==
    /\ Len(d) >= 3
    /\ d[1] = DigitChar(CBQuestion)
    /\ d[2] = "-"
    /\ \A i \in 3..Len(d) : d[i] \in Digits

\* A button press of chat c.
PressOf(c, d) == [kind |-> "cb", chat |-> c, text |-> "", data |-> d, msg |-> 0]

\* C38: a button press of any chat with any payload, unless the chat is
\* that of an employee in Main and the payload a claim payload with a
\* number, changes no table and sends nothing.
C38_PressOutsideMainIsNoOp ==
    \A c \in Chats : \A d \in Payloads :
        LET u == GetUserByChatID(c, Begin)
            s1 == Handle(PressOf(c, d), {})
        IN ~(u # 0 /\ users[u].emp /\ users[u].state = SMain /\ IsClaim(d)) =>
              SameTables(s1) /\ s1.out = <<>> /\ s1.n = 0

\* C38 witness: an employee in QuestionDiscussion and a customer may each
\* press the button of a question that can be claimed, and the processing
\* of neither press leaves a trace.
C38_Witness ==
    \E e \in EmployeesIn(SQuestionDiscussion) : \E q \in Claimable :
      \E u \in CustomersIn(SQuestionDiscussion) :
        /\ Press(e, OfferData(q)) \in Fetched(Texts)
        /\ Press(u, OfferData(q)) \in Fetched(Texts)
        /\ ~Effect(Handle(Press(e, OfferData(q)), {}))
        /\ ~Effect(Handle(Press(u, OfferData(q)), {}))

\* C39 as claimed: after the processing of any update of any chat,
\* whichever sends the gateway rejects, no employee's stored state is
\* Question or SwitchReceiver.
C39_TransientForEmployees ==
    \A e \in AnyUpdates \cup {MessageOf(c, t) : c \in Chats, t \in EmplMain} :
        \A F \in AnyFails(Handle(e, {}).n) :
            LET s1 == Handle(e, F)
            IN \A r \in DOMAIN s1.users :
                  s1.users[r].emp => s1.users[r].state \notin {SQuestion, SSwitchReceiver}

====
